---------------------------- MODULE Spec2Model ----------------------------
(***************************************************************************)
(* Model of CoderSkills/standardize-wiki-docs/parse_docs.py: version-key   *)
(* extraction, latest-revision selection, the docx/xlsx walkers, table     *)
(* flattening, output naming and the per-file driver loop.                 *)
(*                                                                         *)
(* A Python str is a sequence of characters; a character is a one-element  *)
(* token.  Characters outside ASCII are written as named tokens.           *)
(***************************************************************************)
EXTENDS Integers, Sequences, FiniteSets, TLC

VARIABLES
    pc,            \* position of the running function / driver
    filename,      \* extract_version_key: argument
    key,           \* extract_version_key: returned (base, version)
    filepaths,     \* filter_latest_versions: argument
    groups,        \* filter_latest_versions: groups dict, in insertion order
    result,        \* filter_latest_versions: result list
    skiplog,       \* filter_latest_versions: the [SKIP] lines printed
    cursor,        \* filter_latest_versions: loop index
    fs,            \* the output directory: file name -> content written
    all_files,     \* main: the files to parse
    latest_only,   \* main: "--latest" in sys.argv
    fileno,        \* main: index of the file the for loop is at
    output_path,   \* main: the path make_unique_path returned
    parsed_files,  \* main: parsed_files
    console,       \* main: the [OK] / [ERR] lines printed by this invocation
    reported,      \* main: the count printed by the summary line, -1 before it
    run,           \* number of the invocation of main
    calls,         \* history: the last two calls of make_unique_path
    body,          \* parse_docx: doc.element.body, the document's nodes in order
    wb,            \* parse_xlsx: the workbook's sheets in order
    parts,         \* parse_docx / parse_xlsx: parts
    pos,           \* parse_docx / parse_xlsx: index of the loop over body / sheets
    out            \* parse_docx / parse_xlsx: the returned text

keyVars    == <<filename, key>>
filterVars == <<filepaths, groups, result, skiplog, cursor>>
mainVars   == <<fs, all_files, latest_only, fileno, output_path, parsed_files,
               console, reported, run, calls>>
walkVars   == <<body, wb, parts, pos, out>>
vars       == <<pc, keyVars, filterVars, mainVars, walkVars>>

---------------------------------------------------------------------------
(* Characters *)

FwOpen  == "FW("      \* U+FF08 FULLWIDTH LEFT PARENTHESIS
FwClose == "FW)"      \* U+FF09 FULLWIDTH RIGHT PARENTHESIS
Sup2    == "SUP2"     \* U+00B2 SUPERSCRIPT TWO
LF      == "LF"       \* U+000A

Decimals == {"0", "1", "2", "3", "4", "5", "6", "7", "8", "9"}
Letters  == {"a", "b", "c", "d", "o", "v", "x", "l", "s", "p",
             "H", "e", "i", "n", "g", "N", "r", "m", "T", "t", "S", "h",
             "C", "D", "O", "X"}

\* re: \d (Unicode category Nd)
IsDecimal(c) == c \in Decimals
\* str.isdigit for one character: Nd, plus digits such as superscripts
IsDigitChar(c) == c \in Decimals \cup {Sup2}
\* re: \w
IsWord(c) == c \in Letters \cup Decimals \cup {Sup2, "_"}
\* str.strip() with no argument
IsSpace(c) == c \in {" ", LF}

\* code point, for str comparison
CodePoints ==
    (LF :> 10) @@ (" " :> 32) @@ ("#" :> 35) @@ ("(" :> 40) @@ (")" :> 41) @@
    ("-" :> 45) @@ ("." :> 46) @@ ("/" :> 47) @@
    ("0" :> 48) @@ ("1" :> 49) @@ ("2" :> 50) @@ ("3" :> 51) @@ ("4" :> 52) @@
    ("5" :> 53) @@ ("6" :> 54) @@ ("7" :> 55) @@ ("8" :> 56) @@ ("9" :> 57) @@
    ("C" :> 67) @@ ("D" :> 68) @@ ("H" :> 72) @@ ("O" :> 79) @@ ("X" :> 88) @@
    ("p" :> 112) @@ ("N" :> 78) @@ ("S" :> 83) @@ ("T" :> 84) @@ ("_" :> 95) @@
    ("a" :> 97) @@ ("b" :> 98) @@ ("c" :> 99) @@ ("d" :> 100) @@ ("e" :> 101) @@
    ("g" :> 103) @@ ("h" :> 104) @@ ("i" :> 105) @@ ("l" :> 108) @@ ("m" :> 109) @@
    ("n" :> 110) @@ ("o" :> 111) @@ ("r" :> 114) @@ ("s" :> 115) @@ ("t" :> 116) @@
    ("v" :> 118) @@ ("x" :> 120) @@ ("|" :> 124) @@ (Sup2 :> 178) @@
    (FwOpen :> 65288) @@ (FwClose :> 65289)

Ord(c) == CodePoints[c]

---------------------------------------------------------------------------
(* str operations *)

\* s[a-1:b]: the characters a..b (1-based, inclusive), clipped to the string
Slice(s, a, b) ==
    LET lo == IF a < 1 THEN 1 ELSE a
        hi == IF b > Len(s) THEN Len(s) ELSE b
    IN  IF hi < lo THEN <<>> ELSE SubSeq(s, lo, hi)

\* str < str: lexicographic by code point
RECURSIVE StrLess(_, _)
StrLess(s, t) ==
    IF t = <<>> THEN FALSE
    ELSE IF s = <<>> THEN TRUE
    ELSE IF Ord(Head(s)) # Ord(Head(t)) THEN Ord(Head(s)) < Ord(Head(t))
    ELSE StrLess(Tail(s), Tail(t))

\* str.rstrip(chars)
RECURSIVE Rstrip(_, _)
Rstrip(s, chars) ==
    IF s # <<>> /\ s[Len(s)] \in chars
    THEN Rstrip(Slice(s, 1, Len(s) - 1), chars)
    ELSE s

\* str.lstrip(chars)
RECURSIVE Lstrip(_, _)
Lstrip(s, chars) ==
    IF s # <<>> /\ Head(s) \in chars THEN Lstrip(Tail(s), chars) ELSE s

\* sep.join(parts)
RECURSIVE Join(_, _)
Join(items, sep) ==
    IF items = <<>> THEN <<>>
    ELSE IF Len(items) = 1 THEN items[1]
    ELSE items[1] \o sep \o Join(Tail(items), sep)

\* str.lower()
LowerChar(c) ==
    CASE c = "C" -> "c" [] c = "D" -> "d" [] c = "H" -> "h" [] c = "N" -> "n"
      [] c = "O" -> "o" [] c = "S" -> "s" [] c = "T" -> "t" [] c = "X" -> "x"
      [] OTHER -> c

Lower(s) == [i \in 1..Len(s) |-> LowerChar(s[i])]

\* str(n) for n >= 0
RECURSIVE DecimalStr(_)
DecimalStr(n) ==
    LET d == <<"0", "1", "2", "3", "4", "5", "6", "7", "8", "9">>[(n % 10) + 1]
    IN  IF n < 10 THEN <<d>> ELSE Append(DecimalStr(n \div 10), d)

\* str.strip() with no argument
Strip(s) == Lstrip(Rstrip(s, {" ", LF}), {" ", LF})

\* sub in s, and the 1-based index of its first occurrence (0 when absent)
StartsWithAt(s, i, sub) == Slice(s, i, i + Len(sub) - 1) = sub

Find(s, sub) ==
    IF \E i \in 1..Len(s) : StartsWithAt(s, i, sub)
    THEN CHOOSE i \in 1..Len(s) :
             StartsWithAt(s, i, sub) /\ \A j \in 1..(i - 1) : ~StartsWithAt(s, j, sub)
    ELSE 0

Contains(s, sub) == Find(s, sub) # 0

\* s.replace(old, new) for a non-empty old: leftmost occurrences, not overlapping
RECURSIVE Replace(_, _, _)
Replace(s, old, new) ==
    LET i == Find(s, old)
    IN  IF i = 0 THEN s
        ELSE Slice(s, 1, i - 1) \o new \o Replace(Slice(s, i + Len(old), Len(s)), old, new)

\* str.isdigit()
IsDigitStr(s) == s # <<>> /\ \A i \in 1..Len(s) : IsDigitChar(s[i])

\* int(s) for a string of digits: it raises unless every character is decimal
IntRaises(s) == \E i \in 1..Len(s) : ~IsDecimal(s[i])

RECURSIVE IntValue(_)
IntValue(s) ==
    IF s = <<>> THEN 0
    ELSE 10 * IntValue(Slice(s, 1, Len(s) - 1)) + (Ord(s[Len(s)]) - Ord("0"))

\* c * n
RECURSIVE Repeat(_, _)
Repeat(c, n) == IF n <= 0 THEN <<>> ELSE c \o Repeat(c, n - 1)

\* s.count(c) for a one-character c
RECURSIVE Count(_, _)
Count(s, c) ==
    IF s = <<>> THEN 0
    ELSE (IF Head(s) = c THEN 1 ELSE 0) + Count(Tail(s), c)

---------------------------------------------------------------------------
(* extract_version_key *)

\* name.rfind("."), 1-based, 0 when there is none
RfindDot(name) ==
    IF \E i \in 1..Len(name) : name[i] = "."
    THEN CHOOSE i \in 1..Len(name) :
             name[i] = "." /\ \A j \in (i + 1)..Len(name) : name[j] # "."
    ELSE 0

\* Path(filename).suffix
PathSuffix(name) ==
    LET i == RfindDot(name)
    IN  IF 1 < i /\ i < Len(name) THEN Slice(name, i, Len(name)) ELSE <<>>

\* Path(filename).stem
PathStem(name) ==
    LET i == RfindDot(name)
    IN  IF 1 < i /\ i < Len(name) THEN Slice(name, 1, i - 1) ELSE name

OpenParens  == {FwOpen, "("}
CloseParens == {FwClose, ")"}

\* re: $ without MULTILINE, at 1-based position p (the next character to read)
AtDollar(s, p) == p = Len(s) + 1 \/ (p = Len(s) /\ s[p] = LF)

\* the lookahead (?=\.\w+$|$) at position p
Lookahead(s, p) ==
    \/ /\ p <= Len(s)
       /\ s[p] = "."
       /\ \E q \in (p + 2)..(Len(s) + 1) :
              /\ \A k \in (p + 1)..(q - 1) : IsWord(s[k])
              /\ AtDollar(s, q)
    \/ AtDollar(s, p)

\* (\d{4})[）)]?(?=...) with the digits starting at d
TokenAt(s, d) ==
    /\ d + 3 <= Len(s)
    /\ \A k \in d..(d + 3) : IsDecimal(s[k])
    /\ \/ d + 4 <= Len(s) /\ s[d + 4] \in CloseParens /\ Lookahead(s, d + 5)
       \/ Lookahead(s, d + 4)

\* VERSION_PATTERN matched at start position i: the start of group 1, or 0.
\* The optional opening parenthesis is greedy: taken first, dropped on failure.
MatchAt(s, i) ==
    IF i <= Len(s) /\ s[i] \in OpenParens /\ TokenAt(s, i + 1) THEN i + 1
    ELSE IF TokenAt(s, i) THEN i
    ELSE 0

\* VERSION_PATTERN.search(stem): the leftmost start that matches
VERSION_PATTERN(stem) ==
    IF \E i \in 1..Len(stem) : MatchAt(stem, i) # 0
    THEN LET i == CHOOSE i \in 1..Len(stem) :
                      MatchAt(stem, i) # 0 /\ \A j \in 1..(i - 1) : MatchAt(stem, j) = 0
         IN  [found |-> TRUE, start |-> i, group1 |-> MatchAt(stem, i)]
    ELSE [found |-> FALSE, start |-> 0, group1 |-> 0]

extract_version_key_group0(name) ==
    LET stem   == PathStem(name)
        suffix == PathSuffix(name)
        match  == VERSION_PATTERN(stem)
    IN  IF match.found
        THEN [base    |-> Rstrip(Slice(stem, 1, match.start - 1),
                                 {FwOpen, "(", FwClose, " ", ")"}) \o suffix,
              version |-> Slice(stem, match.start, match.group1 + 3)]
        ELSE [base |-> stem \o suffix, version |-> <<>>]

extract_version_key(name) ==
    LET stem   == PathStem(name)
        suffix == PathSuffix(name)
        match  == VERSION_PATTERN(stem)
    IN  IF match.found
        THEN [base    |-> Rstrip(Slice(stem, 1, match.start - 1),
                                 {FwOpen, "(", FwClose, " ", ")"}) \o suffix,
              version |-> Slice(stem, match.group1, match.group1 + 3)]
        ELSE [base |-> stem \o suffix, version |-> <<>>]

---------------------------------------------------------------------------
(* filter_latest_versions *)

\* A Path is the sequence of its parts below the scanned directory; the last
\* part is its name.
PathName(fp) == fp[Len(fp)]

\* Path < Path: part by part
RECURSIVE PathLess(_, _)
PathLess(p, q) ==
    IF q = <<>> THEN FALSE
    ELSE IF p = <<>> THEN TRUE
    ELSE IF Head(p) # Head(q) THEN StrLess(Head(p), Head(q))
    ELSE PathLess(Tail(p), Tail(q))

\* index of the group of base in groups, 0 when it has none yet
GroupIndex(gs, base) ==
    IF \E i \in 1..Len(gs) : gs[i].base = base
    THEN CHOOSE i \in 1..Len(gs) : gs[i].base = base
    ELSE 0

\* groups[base].append((version, fp)) on an insertion-ordered defaultdict(list)
GroupsAppend(gs, base, entry) ==
    LET i == GroupIndex(gs, base)
    IN  IF i = 0
        THEN Append(gs, [base |-> base, versions |-> <<entry>>])
        ELSE [gs EXCEPT ![i].versions = Append(@, entry)]

\* the same sort without reverse=True
RECURSIVE InsertAscending(_, _)
InsertAscending(sorted, x) ==
    IF sorted = <<>> THEN <<x>>
    ELSE IF StrLess(x.version, Head(sorted).version) THEN <<x>> \o sorted
    ELSE <<Head(sorted)>> \o InsertAscending(Tail(sorted), x)

RECURSIVE SortVersionsAscending(_)
SortVersionsAscending(versions) ==
    IF versions = <<>> THEN <<>>
    ELSE InsertAscending(SortVersionsAscending(Slice(versions, 1, Len(versions) - 1)),
                         versions[Len(versions)])

\* an insertion that puts x before the elements whose key is equal
RECURSIVE InsertDescendingBeforeEqual(_, _)
InsertDescendingBeforeEqual(sorted, x) ==
    IF sorted = <<>> THEN <<x>>
    ELSE IF ~StrLess(x.version, Head(sorted).version) THEN <<x>> \o sorted
    ELSE <<Head(sorted)>> \o InsertDescendingBeforeEqual(Tail(sorted), x)

\* one insertion of the stable descending sort: x goes before the first
\* element whose key is smaller, after every element whose key is equal
RECURSIVE InsertDescending(_, _)
InsertDescending(sorted, x) ==
    IF sorted = <<>> THEN <<x>>
    ELSE IF StrLess(Head(sorted).version, x.version) THEN <<x>> \o sorted
    ELSE <<Head(sorted)>> \o InsertDescending(Tail(sorted), x)

\* versions.sort(key=lambda x: x[0], reverse=True): stable, greatest key first
RECURSIVE SortVersions(_)
SortVersions(versions) ==
    IF versions = <<>> THEN <<>>
    ELSE InsertDescending(SortVersions(Slice(versions, 1, Len(versions) - 1)),
                          versions[Len(versions)])

RECURSIVE InsertPath(_, _)
InsertPath(sorted, x) ==
    IF sorted = <<>> THEN <<x>>
    ELSE IF PathLess(x, Head(sorted)) THEN <<x>> \o sorted
    ELSE <<Head(sorted)>> \o InsertPath(Tail(sorted), x)

\* sorted(result)
RECURSIVE SortedPaths(_)
SortedPaths(paths) ==
    IF paths = <<>> THEN <<>>
    ELSE InsertPath(SortedPaths(Slice(paths, 1, Len(paths) - 1)), paths[Len(paths)])

\* [v[1].name for v in versions[1:]]
SkippedNames(versions) == [k \in 1..(Len(versions) - 1) |-> PathName(versions[k + 1].fp)]

---------------------------------------------------------------------------
(* make_unique_path and the helpers of main *)

\* f"{name}_{suffix}.txt"
BasePath(name, suffix) == name \o <<"_">> \o suffix \o <<".", "t", "x", "t">>

\* f"{name}_{suffix}_{counter}.txt"
Candidate(name, suffix, counter) ==
    name \o <<"_">> \o suffix \o <<"_">> \o DecimalStr(counter) \o <<".", "t", "x", "t">>

\* the loop left after its first candidate, whether or not that exists
ProbeOnce(existing, name, suffix, counter) == Candidate(name, suffix, counter)

\* the while loop of make_unique_path, entered with the given counter
RECURSIVE ProbeFrom(_, _, _, _)
ProbeFrom(existing, name, suffix, counter) ==
    IF Candidate(name, suffix, counter) \notin existing
    THEN Candidate(name, suffix, counter)
    ELSE ProbeFrom(existing, name, suffix, counter + 1)

\* make_unique_path without the existence checks
make_unique_path_unchecked(existing, name, suffix) == BasePath(name, suffix)

\* make_unique_path(output_dir, name, suffix); existing holds the names of the
\* files output_dir contains when it is called
make_unique_path(existing, name, suffix) ==
    IF BasePath(name, suffix) \notin existing
    THEN BasePath(name, suffix)
    ELSE ProbeFrom(existing, name, suffix, 2)

\* filepath.suffix[1:].lower()
SuffixTag(fp) == Lower(Tail(PathSuffix(PathName(fp))))

ParsedDir == <<"_", "p", "a", "r", "s", "e", "d">>

\* the test of the scan loop of main: not below _parsed, not hidden, and a
\* .docx or .xlsx suffix
IsCandidate(fp) ==
    /\ \A i \in 1..Len(fp) : fp[i] # ParsedDir
    /\ Head(PathName(fp)) # "."
    /\ Lower(PathSuffix(PathName(fp))) \in
           {<<".", "d", "o", "c", "x">>, <<".", "x", "l", "s", "x">>}

RECURSIVE SetToSeq(_)
SetToSeq(S) ==
    IF S = {} THEN <<>>
    ELSE LET x == CHOOSE x \in S : TRUE IN <<x>> \o SetToSeq(S \ {x})

\* output_path.write_text(content): creates the file or replaces its content
WriteText(dir, path, content) == (path :> content) @@ dir

\* the path appended although the parser raised
ParsedAppendedOnError(parsed, path) == Append(parsed, path)

\* parsed_files after the except branch, which only prints
ParsedAfterError(parsed, path) == parsed

---------------------------------------------------------------------------
(* parse_docx, _parse_table, parse_xlsx *)

Heading == <<"H", "e", "a", "d", "i", "n", "g">>

\* "| " + " | ".join(cells) + " |"
PipeLine(cells) == <<"|", " ">> \o Join(cells, <<" ", "|", " ">>) \o <<" ", "|">>

\* "| " + " | ".join(["---"] * col_count) + " |"
SeparatorLine(col_count) == PipeLine([k \in 1..col_count |-> <<"-", "-", "-">>])

\* rows.insert(1, separator)
Insert1(rows, separator) ==
    IF rows = <<>> THEN <<separator>> ELSE <<Head(rows), separator>> \o Tail(rows)

\* [cell.text.strip().replace("\n", " ") for cell in row.cells]
DocxCells(row) == [k \in 1..Len(row) |-> Replace(Strip(row[k]), <<LF>>, <<" ">>)]

\* _parse_table(table): table.rows is a sequence of rows, a row the sequence
\* of its cells' texts
_parse_table(table) ==
    LET rows == [r \in 1..Len(table.rows) |-> PipeLine(DocxCells(table.rows[r]))]
    IN  IF Len(rows) >= 1
        THEN Join(Insert1(rows, SeparatorLine(Len(table.rows[1]))), <<LF>>)
        ELSE Join(rows, <<LF>>)

\* para.style.name if para.style else ""
StyleName(para) == IF para.style.present THEN para.style.name ELSE <<>>

\* level = style.replace("Heading", "").strip()
HeadingLevel(style) == Strip(Replace(style, Heading, <<>>))

\* the paragraph branch raises: int(level) on digits that are not decimal
ParagraphRaises(para) ==
    LET style == StyleName(para)
    IN  /\ Contains(style, Heading)
        /\ IsDigitStr(HeadingLevel(style))
        /\ IntRaises(HeadingLevel(style))

\* prefix of the paragraph branch, when it does not raise
ParagraphPrefix(para) ==
    LET style == StyleName(para)
        level == HeadingLevel(style)
    IN  IF Contains(style, Heading)
        THEN IF IsDigitStr(level)
             THEN Repeat(<<"#">>, IntValue(level)) \o <<" ">>
             ELSE <<"#", "#", " ">>
        ELSE <<>>

\* what the paragraph branch appends to parts
ParagraphBlocks(para) ==
    LET text == Strip(para.text)
    IN  IF text # <<>> THEN <<ParagraphPrefix(para) \o text>> ELSE <<>>

\* the indices of the body's nodes of one tag, in body order: doc.paragraphs
\* (tag "p") and doc.tables (tag "tbl")
RECURSIVE TagIndices(_, _)
TagIndices(nodes, tag) ==
    IF nodes = <<>> THEN <<>>
    ELSE LET rest == TagIndices(Slice(nodes, 1, Len(nodes) - 1), tag)
         IN  IF nodes[Len(nodes)].tag = tag THEN Append(rest, Len(nodes)) ELSE rest

\* the body walked as doc.paragraphs first, the other nodes after them
BodyOrderParagraphsFirst(nodes) ==
    TagIndices(nodes, "p") \o
    SelectSeq([k \in 1..Len(nodes) |-> k], LAMBDA k : nodes[k].tag # "p")

\* for element in doc.element.body: the indices of the nodes, in walk order
BodyOrder(nodes) == [k \in 1..Len(nodes) |-> k]

\* the inner loops: the member of doc.paragraphs (tag "p") or doc.tables
\* (tag "tbl") whose _element is the node at index i
Resolve(nodes, i, tag) ==
    LET coll == TagIndices(nodes, tag)
        k    == CHOOSE k \in 1..Len(coll) : coll[k] = i
    IN  nodes[coll[k]]

\* str(c) if c is not None else ""
CellStr(c) ==
    IF c.kind = "none" THEN <<>>
    ELSE IF c.kind = "int" THEN DecimalStr(c.val)
    ELSE c.val

\* [str(c) if c is not None else "" for c in row]
XlsxCells(row) == [k \in 1..Len(row) |-> CellStr(row[k])]

\* any(cells)
AnyCell(cells) == \E k \in 1..Len(cells) : cells[k] # <<>>

\* the lines of the retained rows of a sheet
RECURSIVE XlsxRows(_)
XlsxRows(rows) ==
    IF rows = <<>> THEN <<>>
    ELSE LET before == XlsxRows(Slice(rows, 1, Len(rows) - 1))
             cells  == XlsxCells(rows[Len(rows)])
         IN  IF AnyCell(cells) THEN Append(before, PipeLine(cells)) ELSE before

\* f"## Sheet: {sheet_name}"
SheetHeading(name) == <<"#", "#", " ", "S", "h", "e", "e", "t", ":", " ">> \o name

\* the sheet's rows all kept, empty or not
SheetBlocksKeepingEmpty(ws) ==
    LET rows == [r \in 1..Len(ws.rows) |-> PipeLine(XlsxCells(ws.rows[r]))]
    IN  <<SheetHeading(ws.name)>> \o
        (IF rows # <<>>
         THEN <<Join(Insert1(rows, SeparatorLine(Count(rows[1], "|") - 1)), <<LF>>)>>
         ELSE <<>>)

\* what one iteration of the loop over wb.sheetnames appends to parts
SheetBlocks(ws) ==
    LET rows == XlsxRows(ws.rows)
    IN  <<SheetHeading(ws.name)>> \o
        (IF rows # <<>>
         THEN <<Join(Insert1(rows, SeparatorLine(Count(rows[1], "|") - 1)), <<LF>>)>>
         ELSE <<>>)

---------------------------------------------------------------------------
(* Bounds and input sets *)

MaxPrefix == 2

RECURSIVE SeqsUpTo(_, _)
SeqsUpTo(S, n) ==
    IF n = 0 THEN {<<>>}
    ELSE LET shorter == SeqsUpTo(S, n - 1)
         IN  shorter \cup {Append(s, c) : s \in shorter, c \in S}

Exts == {<<".", "d", "o", "c", "x">>, <<".", "x", "l", "s", "x">>}

Tokens4 == {<<"1", "2", "0", "3">>, <<"1", "1", "2", "2">>}

Prefixes == SeqsUpTo({"a", " ", "(", "1"}, MaxPrefix)

\* File names: a prefix, an optionally wrapped run of digits, trailing text,
\* an extension.  No name starts with a dot (main skips hidden files).
KeyNames ==
    { p \o o \o d \o c \o t \o e :
        p \in Prefixes,
        o \in {<<>>, <<"(">>, <<FwOpen>>},
        d \in Tokens4 \cup {<<"1", "2", "0">>},
        c \in {<<>>, <<")">>, <<FwClose>>},
        t \in {<<>>, <<".", "v", "2">>, <<"x">>, <<".">>},
        e \in Exts }

MaxFiles == 3

FileA1203 == <<"a", "(", "1", "2", "0", "3", ")", ".", "d", "o", "c", "x">>
FileA1122 == <<"a", FwOpen, "1", "1", "2", "2", FwClose, ".", "d", "o", "c", "x">>
FileA1014 == <<"a", "1", "0", "1", "4", ".", "d", "o", "c", "x">>
FileA     == <<"a", ".", "d", "o", "c", "x">>
FileB     == <<"b", ".", "x", "l", "s", "x">>
DirD      == <<"d">>

\* Paths below the scanned directory: three dated revisions of a.docx, an
\* undated a.docx, an unrelated file, and same-named files in a subdirectory.
FilterPaths ==
    { <<FileA1203>>, <<FileA1122>>, <<FileA1014>>, <<FileA>>, <<FileB>>,
      <<DirD, FileA1203>>, <<DirD, FileA>> }

\* lists of distinct paths (rglob yields each path once)
DistinctSeqs(S, n) ==
    { q \in SeqsUpTo(S, n) : \A i, j \in 1..Len(q) : i # j => q[i] # q[j] }

MaxRuns == 2

FileX     == <<"x", ".", "d", "o", "c", "x">>
FileXUp   == <<"x", ".", "D", "O", "C", "X">>
FileXs    == <<"x", ".", "x", "l", "s", "x">>
FileNote  == <<"n", ".", "t", "x", "t">>

\* The files an invocation may find below the scanned directory: the same
\* stem and type in two directories and with an upper-case suffix, the same
\* stem as a spreadsheet, and a file that is no document.
TreePaths ==
    { <<FileX>>, <<DirD, FileX>>, <<FileXUp>>, <<FileXs>>, <<FileNote>> }

MaxBody == 3
MaxSheets == 2
MaxRows == 2

NoStyle == [present |-> FALSE, name |-> <<>>]
Style(name) == [present |-> TRUE, name |-> name]

StNormal    == Style(<<"N", "o", "r", "m", "a", "l">>)
StHeading1  == Style(Heading \o <<" ", "1">>)
StHeading12 == Style(Heading \o <<" ", "1", "2">>)
StTocHead   == Style(<<"T", "O", "C", " ">> \o Heading)
StHeadSup2  == Style(Heading \o <<" ", Sup2>>)

Paragraph(style, text) == [tag |-> "p", style |-> style, text |-> text, rows |-> <<>>]
Table(rows) == [tag |-> "tbl", style |-> NoStyle, text |-> <<>>, rows |-> rows]
SectPr == [tag |-> "sectPr", style |-> NoStyle, text |-> <<>>, rows |-> <<>>]

\* Body nodes: plain and heading paragraphs, blank paragraphs, a heading
\* style whose level is a digit that is not decimal, a table without rows, a
\* table whose cells hold blanks and a line break, the section properties.
DocxNodes ==
    { Paragraph(StNormal, <<" ", "a", " ">>), Paragraph(StNormal, <<" ">>),
      Paragraph(NoStyle, <<"b">>), Paragraph(StHeading1, <<"a">>),
      Paragraph(StHeading1, <<LF>>), Paragraph(StHeading12, <<"b">>),
      Paragraph(StTocHead, <<"a">>), Paragraph(StHeadSup2, <<"a">>),
      Table(<<>>),
      Table(<< << <<" ", "c">>, <<"d", LF, "e">> >>, << <<>>, <<"f", LF>> >> >>),
      SectPr }

NoneCell == [kind |-> "none", val |-> <<>>]
StrCell(s) == [kind |-> "str", val |-> s]
IntCell(n) == [kind |-> "int", val |-> n]

\* Sheet rows: one with no content, one with a null cell, one whose cells are
\* a number and a vertical bar.
XlsxRowSet ==
    { <<NoneCell, StrCell(<<>>)>>, <<StrCell(<<"a">>), NoneCell>>, <<IntCell(10), StrCell(<<"|">>)>> }

SheetName(i) == <<"s">> \o DecimalStr(i)

\* the workbook whose i-th sheet holds the rows sheets[i]
Workbook(sheets) ==
    [i \in 1..Len(sheets) |-> [name |-> SheetName(i), rows |-> sheets[i]]]

\* Grids of cell texts for both table paths: rows of one and two cells, a
\* cell holding a vertical bar, a row of empty cells.
GridRowSet ==
    { << <<"a">>, <<"b">> >>, << <<"|">>, <<"b">> >>, << <<>>, <<"c">> >>,
      << <<"a">> >>, << <<>>, <<>> >> }

Grids == SeqsUpTo(GridRowSet, MaxRows) \ {<<>>}

NoKey == [base |-> <<>>, version |-> <<>>]

---------------------------------------------------------------------------
(* Specification SpecKey: extract_version_key applied to one file name *)

IdleKey    == filename = <<>> /\ key = NoKey
IdleFilter == /\ filepaths = <<>> /\ groups = <<>> /\ result = <<>>
              /\ skiplog = <<>> /\ cursor = 0
IdleWalk   == /\ body = <<>> /\ wb = <<>> /\ parts = <<>> /\ pos = 0 /\ out = <<>>
IdleMain   == /\ fs = <<>> /\ all_files = <<>> /\ latest_only = FALSE
              /\ fileno = 0 /\ output_path = <<>> /\ parsed_files = <<>>
              /\ console = <<>> /\ reported = -1 /\ run = 0 /\ calls = <<>>

InitKey ==
    /\ pc = "key_call"
    /\ filename \in KeyNames
    /\ key = NoKey
    /\ IdleFilter
    /\ IdleMain
    /\ IdleWalk

ExtractKey ==
    /\ pc = "key_call"
    /\ key' = extract_version_key(filename)
    /\ pc' = "key_done"
    /\ UNCHANGED <<filename, filterVars, mainVars, walkVars>>

NextKey == ExtractKey

SpecKey == InitKey /\ [][NextKey]_vars

---------------------------------------------------------------------------
(* Specifications SpecDocx, SpecXlsx, SpecTable: the two walkers *)

IdleRest == IdleKey /\ IdleFilter /\ IdleMain

InitDocx ==
    /\ pc = "docx_walk"
    /\ body \in SeqsUpTo(DocxNodes, MaxBody)
    /\ wb = <<>>
    /\ parts = <<>>
    /\ pos = 1
    /\ out = <<>>
    /\ IdleRest

\* one iteration on a paragraph node; int(level) may raise
WalkParagraph ==
    /\ pc = "docx_walk"
    /\ pos <= Len(body)
    /\ body[BodyOrder(body)[pos]].tag = "p"
    /\ LET para == Resolve(body, BodyOrder(body)[pos], "p")
       IN  IF ParagraphRaises(para)
           THEN /\ pc' = "docx_raised"
                /\ UNCHANGED <<parts, pos>>
           ELSE /\ parts' = parts \o ParagraphBlocks(para)
                /\ pos' = pos + 1
                /\ UNCHANGED pc
    /\ UNCHANGED <<body, wb, out, keyVars, filterVars, mainVars>>

\* one iteration on a table node
WalkTable ==
    /\ pc = "docx_walk"
    /\ pos <= Len(body)
    /\ body[BodyOrder(body)[pos]].tag = "tbl"
    /\ parts' = Append(parts, _parse_table(Resolve(body, BodyOrder(body)[pos], "tbl")))
    /\ pos' = pos + 1
    /\ UNCHANGED <<pc, body, wb, out, keyVars, filterVars, mainVars>>

\* one iteration on any other node of the body
WalkOther ==
    /\ pc = "docx_walk"
    /\ pos <= Len(body)
    /\ body[BodyOrder(body)[pos]].tag \notin {"p", "tbl"}
    /\ pos' = pos + 1
    /\ UNCHANGED <<pc, body, wb, parts, out, keyVars, filterVars, mainVars>>

\* return "\n\n".join(parts)
ReturnDocx ==
    /\ pc = "docx_walk"
    /\ pos > Len(body)
    /\ out' = Join(parts, <<LF, LF>>)
    /\ pc' = "docx_done"
    /\ UNCHANGED <<body, wb, parts, pos, keyVars, filterVars, mainVars>>

NextDocx == WalkParagraph \/ WalkTable \/ WalkOther \/ ReturnDocx

SpecDocx == InitDocx /\ [][NextDocx]_vars

InitXlsx ==
    /\ pc = "xlsx_walk"
    /\ \E n \in 0..MaxSheets :
           \E sheets \in [1..n -> SeqsUpTo(XlsxRowSet, MaxRows)] : wb = Workbook(sheets)
    /\ body = <<>>
    /\ parts = <<>>
    /\ pos = 1
    /\ out = <<>>
    /\ IdleRest

\* one iteration of the loop over wb.sheetnames
WalkSheet ==
    /\ pc = "xlsx_walk"
    /\ pos <= Len(wb)
    /\ parts' = parts \o SheetBlocks(wb[pos])
    /\ pos' = pos + 1
    /\ UNCHANGED <<pc, body, wb, out, keyVars, filterVars, mainVars>>

\* wb.close(); return "\n\n".join(parts)
ReturnXlsx ==
    /\ pc = "xlsx_walk"
    /\ pos > Len(wb)
    /\ out' = Join(parts, <<LF, LF>>)
    /\ pc' = "xlsx_done"
    /\ UNCHANGED <<body, wb, parts, pos, keyVars, filterVars, mainVars>>

NextXlsx == WalkSheet \/ ReturnXlsx

SpecXlsx == InitXlsx /\ [][NextXlsx]_vars

\* either walker, on a document body or on a workbook
InitWalkers == InitDocx \/ InitXlsx

NextWalkers == NextDocx \/ NextXlsx

SpecWalkers == InitWalkers /\ [][NextWalkers]_vars

\* one grid, as the only table of a document or as the only sheet of a workbook
InitTable ==
    /\ pc \in {"docx_walk", "xlsx_walk"}
    /\ \E grid \in Grids :
           /\ body = <<Table(grid)>>
           /\ wb = <<[name |-> SheetName(1),
                      rows |-> [r \in 1..Len(grid) |->
                                   [k \in 1..Len(grid[r]) |-> StrCell(grid[r][k])]]]>>
    /\ parts = <<>>
    /\ pos = 1
    /\ out = <<>>
    /\ IdleRest

NextTable == WalkTable \/ ReturnDocx \/ WalkSheet \/ ReturnXlsx

SpecTable == InitTable /\ [][NextTable]_vars

---------------------------------------------------------------------------
(* Claims on extract_version_key *)

ParenSpace == {FwOpen, "(", FwClose, " ", ")"}

\* C7: for every file name <prefix>(dddd).ext or <prefix>（dddd）.ext the
\* returned version token is dddd and the base identity is <prefix> with its
\* trailing parenthesis and space characters removed, followed by .ext, so
\* that neither the token nor its parentheses remain in the base identity.
C7_WrappedTokenKey ==
    pc = "key_done" =>
        \A p \in Prefixes, d \in Tokens4, e \in Exts,
           w \in {<<"(", ")">>, <<FwOpen, FwClose>>} :
            filename = p \o <<w[1]>> \o d \o <<w[2]>> \o e =>
                /\ key.version = d
                /\ key.base = Rstrip(p, ParenSpace) \o e
                /\ Len(key.base) <= Len(p) + Len(e)

C7_Witness ==
    /\ pc = "key_done"
    /\ filename = <<"a", " ", FwOpen, "1", "2", "0", "3", FwClose,
                    ".", "d", "o", "c", "x">>
    /\ key = [base |-> <<"a", ".", "d", "o", "c", "x">>,
              version |-> <<"1", "2", "0", "3">>]

\* the stem ends in four digits, optionally wrapped in parentheses
EndsInToken(stem) ==
    \E o \in {<<>>, <<"(">>, <<FwOpen>>}, c \in {<<>>, <<")">>, <<FwClose>>} :
        LET k == Len(o) + 4 + Len(c)
            t == Slice(stem, Len(stem) - k + 1, Len(stem))
        IN  /\ k <= Len(stem)
            /\ Slice(t, 1, Len(o)) = o
            /\ \A j \in (Len(o) + 1)..(Len(o) + 4) : t[j] \in Decimals
            /\ Slice(t, Len(o) + 5, k) = c

\* C8: for every file name whose base name (extension stripped) does not end
\* in a 4-digit token, the version token is empty and the base identity is
\* the original file name; a 4-digit number followed by other text in the
\* base name is never taken as the version token.
C8_NoTrailingTokenKey ==
    pc = "key_done" =>
        \A e \in Exts :
            LET n    == Len(filename) - Len(e)
                stem == Slice(filename, 1, n)
            IN  (n >= 1 /\ filename = stem \o e /\ ~EndsInToken(stem)) =>
                    key = [base |-> filename, version |-> <<>>]

---------------------------------------------------------------------------
(* Specification SpecFilter: filter_latest_versions applied to one list *)

InitFilter ==
    /\ pc = "filter_group"
    /\ filepaths \in DistinctSeqs(FilterPaths, MaxFiles)
    /\ groups = <<>>
    /\ result = <<>>
    /\ skiplog = <<>>
    /\ cursor = 1
    /\ IdleKey
    /\ IdleMain
    /\ IdleWalk

\* for fp in filepaths: one iteration
GroupFile ==
    /\ pc = "filter_group"
    /\ cursor <= Len(filepaths)
    /\ LET fp == filepaths[cursor]
           k  == extract_version_key(PathName(fp))
       IN  groups' = GroupsAppend(groups, k.base, [version |-> k.version, fp |-> fp])
    /\ cursor' = cursor + 1
    /\ UNCHANGED <<pc, filepaths, result, skiplog, keyVars, mainVars, walkVars>>

\* the first loop is exhausted: result = []
StartSelect ==
    /\ pc = "filter_group"
    /\ cursor > Len(filepaths)
    /\ result' = <<>>
    /\ cursor' = 1
    /\ pc' = "filter_select"
    /\ UNCHANGED <<filepaths, groups, skiplog, keyVars, mainVars, walkVars>>

\* for base, versions in groups.items(): one iteration
SelectGroup ==
    /\ pc = "filter_select"
    /\ cursor <= Len(groups)
    /\ LET base     == groups[cursor].base
           versions == groups[cursor].versions
       IN  IF Len(versions) = 1
           THEN /\ result' = Append(result, versions[1].fp)
                /\ UNCHANGED <<groups, skiplog>>
           ELSE LET sorted == SortVersions(versions)
                    latest == sorted[1]
                IN  /\ groups' = [groups EXCEPT ![cursor].versions = sorted]
                    /\ result' = Append(result, latest.fp)
                    /\ skiplog' = Append(skiplog,
                           [base    |-> base,
                            latest  |-> PathName(latest.fp),
                            skipped |-> SkippedNames(sorted)])
    /\ cursor' = cursor + 1
    /\ UNCHANGED <<pc, filepaths, keyVars, mainVars, walkVars>>

\* return sorted(result)
ReturnSorted ==
    /\ pc = "filter_select"
    /\ cursor > Len(groups)
    /\ result' = SortedPaths(result)
    /\ pc' = "filter_done"
    /\ UNCHANGED <<filepaths, groups, skiplog, cursor, keyVars, mainVars, walkVars>>

NextFilter == GroupFile \/ StartSelect \/ SelectGroup \/ ReturnSorted

SpecFilter == InitFilter /\ [][NextFilter]_vars

---------------------------------------------------------------------------
(* Specification SpecMain: successive invocations of main on one directory *)

\* what parse_docx / parse_xlsx return for the file as it is at this invocation
Content(fp, r) == [src |-> fp, run |-> r]

InitMain ==
    /\ pc = "main_start"
    /\ fs = <<>>
    /\ all_files = <<>>
    /\ latest_only = FALSE
    /\ fileno = 0
    /\ output_path = <<>>
    /\ parsed_files = <<>>
    /\ console = <<>>
    /\ reported = -1
    /\ run = 1
    /\ calls = <<>>
    /\ IdleKey
    /\ IdleFilter
    /\ IdleWalk

\* main up to the for loop: the scan of the directory tree, which also meets
\* the files of _parsed, and the --latest switch
Scan ==
    /\ pc = "main_start"
    /\ \E tree \in SUBSET TreePaths, latest \in BOOLEAN :
           LET found == tree \cup {<<ParsedDir, f>> : f \in DOMAIN fs}
               files == SortedPaths(SetToSeq({fp \in found : IsCandidate(fp)}))
           IN  /\ latest_only' = latest
               /\ IF latest
                  THEN /\ filepaths' = files
                       /\ groups' = <<>>
                       /\ result' = <<>>
                       /\ skiplog' = <<>>
                       /\ cursor' = 1
                       /\ pc' = "filter_group"
                       /\ UNCHANGED all_files
                  ELSE /\ all_files' = files
                       /\ pc' = "main_loop"
                       /\ UNCHANGED filterVars
    /\ fileno' = 1
    /\ parsed_files' = <<>>
    /\ console' = <<>>
    /\ reported' = -1
    /\ UNCHANGED <<fs, output_path, run, calls, keyVars, walkVars>>

\* all_files = filter_latest_versions(all_files)
AfterFilter ==
    /\ pc = "filter_done"
    /\ latest_only
    /\ all_files' = result
    /\ pc' = "main_loop"
    /\ UNCHANGED <<fs, latest_only, fileno, output_path, parsed_files, console,
                   reported, run, calls, keyVars, filterVars, walkVars>>

\* the head of one iteration: suffix_tag, output_path, relative
ChoosePath ==
    /\ pc = "main_loop"
    /\ fileno <= Len(all_files)
    /\ LET fp   == all_files[fileno]
           name == PathStem(PathName(fp))
           path == make_unique_path(DOMAIN fs, name, SuffixTag(fp))
       IN  /\ output_path' = path
           /\ calls' = <<[name |-> name, suffix |-> SuffixTag(fp), path |-> path]>>
                       \o Slice(calls, 1, 1)
    /\ pc' = "main_parse"
    /\ UNCHANGED <<fs, all_files, latest_only, fileno, parsed_files, console,
                   reported, run, keyVars, filterVars, walkVars>>

\* the try block when the parser returns: write_text, append, [OK]
ParseOk ==
    /\ pc = "main_parse"
    /\ fs' = WriteText(fs, output_path, Content(all_files[fileno], run))
    /\ parsed_files' = Append(parsed_files, output_path)
    /\ console' = Append(console,
           [tag |-> "OK", file |-> all_files[fileno], out |-> output_path])
    /\ fileno' = fileno + 1
    /\ pc' = "main_loop"
    /\ UNCHANGED <<all_files, latest_only, output_path, reported, run, calls,
                   keyVars, filterVars, walkVars>>

\* the try block when the parser raises: [ERR]
ParseFail ==
    /\ pc = "main_parse"
    /\ parsed_files' = ParsedAfterError(parsed_files, output_path)
    /\ console' = Append(console,
           [tag |-> "ERR", file |-> all_files[fileno], out |-> <<>>])
    /\ fileno' = fileno + 1
    /\ pc' = "main_loop"
    /\ UNCHANGED <<fs, all_files, latest_only, output_path, reported, run, calls,
                   keyVars, filterVars, walkVars>>

\* the loop is exhausted: the summary line
Summary ==
    /\ pc = "main_loop"
    /\ fileno > Len(all_files)
    /\ reported' = Len(parsed_files)
    /\ pc' = "main_done"
    /\ UNCHANGED <<fs, all_files, latest_only, fileno, output_path, parsed_files,
                   console, run, calls, keyVars, filterVars, walkVars>>

\* the program is started again on the same directory
Reinvoke ==
    /\ pc = "main_done"
    /\ run < MaxRuns
    /\ run' = run + 1
    /\ pc' = "main_start"
    /\ UNCHANGED <<fs, all_files, latest_only, fileno, output_path, parsed_files,
                   console, reported, calls, keyVars, filterVars, walkVars>>

NextMain ==
    \/ Scan \/ GroupFile \/ StartSelect \/ SelectGroup \/ ReturnSorted
    \/ AfterFilter \/ ChoosePath \/ ParseOk \/ ParseFail \/ Summary \/ Reinvoke

SpecMain == InitMain /\ [][NextMain]_vars

---------------------------------------------------------------------------
(* Claims on filter_latest_versions *)

Range(s) == {s[i] : i \in 1..Len(s)}

BaseOf(fp)    == extract_version_key(PathName(fp)).base
VersionOf(fp) == extract_version_key(PathName(fp)).version

\* the input paths sharing base identity b
GroupOf(b) == {fp \in Range(filepaths) : BaseOf(fp) = b}

\* the names the skip diagnostic for base b lists as skipped
SkippedFor(b) ==
    UNION {Range(skiplog[i].skipped) : i \in {j \in 1..Len(skiplog) : skiplog[j].base = b}}

\* C1: of every group of input paths sharing a base identity exactly one path
\* is returned: the sole member of a group of one, and otherwise a member
\* whose version token is lexicographically greatest in the group; the other
\* members are not returned and are named in the skip diagnostic; nothing
\* outside the input is returned.
C1_OnePerGroupGreatest ==
    pc = "filter_done" =>
        /\ Range(result) \subseteq Range(filepaths)
        /\ \A i, j \in 1..Len(result) : i # j => result[i] # result[j]
        /\ \A b \in {BaseOf(fp) : fp \in Range(filepaths)} :
               LET kept == GroupOf(b) \cap Range(result)
               IN  /\ Cardinality(kept) = 1
                   /\ \A k \in kept, fp \in GroupOf(b) :
                          /\ ~StrLess(VersionOf(k), VersionOf(fp))
                          /\ fp # k => PathName(fp) \in SkippedFor(b)

C1_Witness ==
    /\ pc = "filter_done"
    /\ filepaths = << <<FileA1014>>, <<FileA1203>>, <<FileA1122>> >>
    /\ result = << <<FileA1203>> >>
    /\ Len(skiplog) = 1
    /\ Range(skiplog[1].skipped) = {FileA1014, FileA1122}

\* the place of an input path in the input sequence
InputIndex(fp) == CHOOSE i \in 1..Len(filepaths) : filepaths[i] = fp

\* the members of the group of base b whose version token is the greatest
Greatest(b) ==
    {fp \in GroupOf(b) : \A other \in GroupOf(b) : ~StrLess(VersionOf(fp), VersionOf(other))}

\* C12: when several files of one group share the greatest version token
\* (all tokens empty included), filter_latest_versions keeps the one that
\* comes first in the input sequence and returns none of the others; the
\* returned list is thereby fixed by the input sequence: it is the sorted
\* list of each group's first member with the greatest token.
C12_TieKeepsFirstInInput ==
    pc = "filter_done" =>
        /\ \A b \in {BaseOf(fp) : fp \in Range(filepaths)} :
               \A first \in Greatest(b) :
                   (\A fp \in Greatest(b) : InputIndex(first) <= InputIndex(fp)) =>
                       /\ first \in Range(result)
                       /\ \A fp \in Greatest(b) \ {first} :
                              /\ fp \notin Range(result)
                              /\ PathName(fp) \in SkippedFor(b)
        /\ result = SortedPaths(SetToSeq(
               {first \in Range(filepaths) :
                    /\ first \in Greatest(BaseOf(first))
                    /\ \A fp \in Greatest(BaseOf(first)) :
                           InputIndex(first) <= InputIndex(fp)}))

C12_Witness ==
    /\ pc = "filter_done"
    /\ filepaths = << <<FileA1122>>, <<FileA1203>>, <<DirD, FileA1203>> >>
    /\ result = << <<FileA1203>> >>
    /\ Len(skiplog) = 1
    /\ skiplog[1].skipped = <<FileA1203, FileA1122>>

---------------------------------------------------------------------------
(* Claims on make_unique_path and main *)

\* C2: no write of the driver replaces an existing output file, within one
\* invocation or across invocations: the path make_unique_path returned does
\* not exist while the file is being parsed, and every file of the output
\* directory keeps its content at every step.
C2_NeverOverwrites ==
    /\ [](pc = "main_parse" => output_path \notin DOMAIN fs)
    /\ [][\A f \in DOMAIN fs : f \in DOMAIN fs' /\ fs'[f] = fs[f]]_vars

OutX1 == BasePath(<<"x">>, <<"d", "o", "c", "x">>)
OutX2 == Candidate(<<"x">>, <<"d", "o", "c", "x">>, 2)

C2_Witness ==
    /\ run = 2
    /\ pc = "main_done"
    /\ {OutX1, OutX2} \subseteq DOMAIN fs
    /\ fs[OutX1] = Content(<<FileX>>, 1)
    /\ fs[OutX2] = Content(<<FileX>>, 2)

\* the two most recent calls of make_unique_path had the same name and suffix;
\* calls[1] is the later one
SameArguments ==
    /\ pc = "main_parse"
    /\ Len(calls) = 2
    /\ calls[1].name = calls[2].name
    /\ calls[1].suffix = calls[2].suffix

\* calls[1].path and calls[2].path are distinct and differ in the numeric
\* suffix alone, that of the later call being _k with k >= 2
DistinctBySuffix ==
    /\ calls[1].path # calls[2].path
    /\ \E k \in 2..(Cardinality(DOMAIN fs) + 2) :
           /\ calls[1].path = Candidate(calls[1].name, calls[1].suffix, k)
           /\ calls[2].path \in
                  {BasePath(calls[1].name, calls[1].suffix)} \cup
                  {Candidate(calls[1].name, calls[1].suffix, j) : j \in 2..(k - 1)}

\* C3 as stated: two successive calls of make_unique_path with the same
\* output directory, base name and type tag return two distinct paths, the
\* second differing from the first only by a numeric suffix.
C3_SuccessiveCallsDistinct == SameArguments => DistinctBySuffix

\* C3 as amended: the same, for two successive calls between which the file
\* at the first returned path has been written.
C3_DistinctOnceWritten ==
    (SameArguments /\ calls[2].path \in DOMAIN fs) => DistinctBySuffix

C3_Witness ==
    /\ SameArguments
    /\ calls[2].path = OutX2
    /\ calls[2].path \in DOMAIN fs
    /\ calls[1].path = Candidate(<<"x">>, <<"d", "o", "c", "x">>, 3)

\* the output files holding the parse of file fp by the current invocation
OutputsOf(fp) == {f \in DOMAIN fs : fs[f] = Content(fp, run)}

\* C4: a parser failure on one file is isolated.  When an invocation ends,
\* every file of the list has been processed in order, a file that failed has
\* no output file, a file that succeeded has exactly one, holding its whole
\* parsed content, and the reported count is the number of files written.
C4_FailureIsolated ==
    pc = "main_done" =>
        /\ Len(console) = Len(all_files)
        /\ \A i \in 1..Len(console) :
               /\ console[i].file = all_files[i]
               /\ console[i].tag = "ERR" => OutputsOf(all_files[i]) = {}
               /\ console[i].tag = "OK" => OutputsOf(all_files[i]) = {console[i].out}
        /\ reported = Cardinality({f \in DOMAIN fs : fs[f].run = run})

C4_Witness ==
    /\ pc = "main_done"
    /\ Len(console) = 3
    /\ console[1].tag = "OK"
    /\ console[2].tag = "ERR"
    /\ console[3].tag = "OK"
    /\ reported = 2

---------------------------------------------------------------------------
(* Claims on parse_docx, _parse_table and parse_xlsx *)

BlankLine == <<LF, LF>>

\* a body node that contributes a block: a table, or a paragraph whose
\* trimmed text is not empty
EmitsBlock(node) ==
    \/ node.tag = "tbl"
    \/ node.tag = "p" /\ Strip(node.text) # <<>>

\* the block of a node that contributes one
BlockOf(node) ==
    IF node.tag = "tbl" THEN _parse_table(node)
    ELSE ParagraphPrefix(node) \o Strip(node.text)

\* the body's paragraph and table nodes in body order, blank paragraphs
\* removed, each mapped to its block
RECURSIVE BodyBlocks(_)
BodyBlocks(nodes) ==
    IF nodes = <<>> THEN <<>>
    ELSE (IF EmitsBlock(Head(nodes)) THEN <<BlockOf(Head(nodes))>> ELSE <<>>)
         \o BodyBlocks(Tail(nodes))

\* C5: parse_docx returns the blocks of the body's paragraph and table nodes
\* in body order, blank paragraphs removed, one block per remaining node,
\* joined by a blank line; a table between two paragraphs stays between them.
C5_BodyOrderKept ==
    pc = "docx_done" =>
        /\ parts = BodyBlocks(body)
        /\ out = Join(BodyBlocks(body), BlankLine)

C5_Witness ==
    /\ pc = "docx_done"
    /\ Len(body) = 3
    /\ body[1] = Paragraph(StNormal, <<" ", "a", " ">>)
    /\ body[2].tag = "tbl" /\ body[2].rows # <<>>
    /\ body[3] = Paragraph(StHeading1, <<"a">>)
    /\ parts = << <<"a">>, _parse_table(body[2]), <<"#", " ", "a">> >>

\* the 1-based place, among the blocks, of the block of the node at index i
BlockIndex(nodes, i) == Cardinality({j \in 1..i : EmitsBlock(nodes[j])})

\* the style's suffix parses as an integer: it is a non-empty run of decimals
ParsesAsInteger(suffix) ==
    suffix # <<>> /\ \A k \in 1..Len(suffix) : suffix[k] \in Decimals

\* the prefix C10 states for a style name
StatedPrefix(style) ==
    IF Contains(style, Heading)
    THEN LET suffix == Strip(Replace(style, Heading, <<>>))
         IN  IF ParsesAsInteger(suffix)
             THEN Repeat(<<"#">>, IntValue(suffix)) \o <<" ">>
             ELSE <<"#", "#", " ">>
    ELSE <<>>

\* the nodes of the body the loop has dealt with
Walked == IF pc = "docx_done" THEN 1..Len(body) ELSE 1..(pos - 1)

\* C10: for every paragraph with non-empty trimmed text the emitted block is
\* N hash characters, a space and the text when the style is a heading style
\* whose suffix parses as the integer N, "## " and the text for any other
\* heading style, and the bare text for a style that is no heading style; no
\* style name makes the walker fail.
C10_HeadingPrefix ==
    /\ pc # "docx_raised"
    /\ pc \in {"docx_walk", "docx_done"} =>
           \A i \in Walked :
               (body[i].tag = "p" /\ Strip(body[i].text) # <<>>) =>
                   parts[BlockIndex(body, i)] =
                       StatedPrefix(StyleName(body[i])) \o Strip(body[i].text)

\* the grid's flattening as C6 states it: the first row's line, a separator
\* of as many columns as the first row has cells, the other rows' lines
Flattened(grid) ==
    <<PipeLine(grid[1]), SeparatorLine(Len(grid[1]))>> \o
    [r \in 1..(Len(grid) - 1) |-> PipeLine(grid[r + 1])]

\* the rows of a sheet that are not all empty or null, as cell texts
RetainedGrid(rows) ==
    LET texts == [r \in 1..Len(rows) |->
                     [k \in 1..Len(rows[r]) |->
                         IF rows[r][k] = NoneCell THEN <<>> ELSE CellStr(rows[r][k])]]
    IN  SelectSeq(texts, LAMBDA row : \E k \in 1..Len(row) : row[k] # <<>>)

\* C6: a non-empty grid of n rows is flattened to exactly n+1 lines: the
\* first row's line, a separator with as many "---" columns as the first row
\* has cells, the remaining rows' lines in order; the same on the docx table
\* path and on the spreadsheet path over its retained rows.
C6_FlattenedGrid ==
    /\ pc = "docx_done" =>
           LET grid == [r \in 1..Len(body[1].rows) |-> DocxCells(body[1].rows[r])]
           IN  /\ out = Join(Flattened(grid), <<LF>>)
               /\ Count(out, LF) + 1 = Len(grid) + 1
    /\ pc = "xlsx_done" =>
           LET grid == RetainedGrid(wb[1].rows)
           IN  grid # <<>> =>
                   /\ Len(parts) = 2
                   /\ parts[2] = Join(Flattened(grid), <<LF>>)
                   /\ Count(parts[2], LF) + 1 = Len(grid) + 1

\* the number of blocks a sheet contributes: its heading, and its table when
\* it has a retained row
SheetBlockCount(ws) == IF RetainedGrid(ws.rows) = <<>> THEN 1 ELSE 2

RECURSIVE BlocksBefore(_, _)
BlocksBefore(book, i) ==
    IF i <= 1 THEN 0 ELSE BlocksBefore(book, i - 1) + SheetBlockCount(book[i - 1])

\* a table block over the grid: the first row's line, some separator line
\* directly after it, then the other rows' lines
IsTableBlockOf(block, grid) ==
    \E k \in 1..Len(block) :
        block = Join(<<PipeLine(grid[1]), SeparatorLine(k)>> \o
                     [r \in 1..(Len(grid) - 1) |-> PipeLine(grid[r + 1])], <<LF>>)

\* C9: parse_xlsx emits no line for a row whose cells are all empty or null,
\* the separator sits directly after the first retained row, and the sheets
\* contribute their heading and table in sheet order, each sheet's blocks
\* together.
C9_EmptyRowsSkippedSheetsInOrder ==
    pc = "xlsx_done" =>
        /\ Len(parts) = BlocksBefore(wb, Len(wb) + 1)
        /\ out = Join(parts, BlankLine)
        /\ \A i \in 1..Len(wb) :
               LET at   == BlocksBefore(wb, i) + 1
                   grid == RetainedGrid(wb[i].rows)
               IN  /\ parts[at] = SheetHeading(wb[i].name)
                   /\ grid # <<>> => IsTableBlockOf(parts[at + 1], grid)

C9_Witness ==
    /\ pc = "xlsx_done"
    /\ Len(wb) = 2
    /\ wb[1].rows = << <<NoneCell, StrCell(<<>>)>>, <<StrCell(<<"a">>), NoneCell>> >>
    /\ wb[2].rows = << <<NoneCell, StrCell(<<>>)>> >>
    /\ parts = << SheetHeading(<<"s", "1">>),
                  <<"|", " ", "a", " ", "|", " ", " ", "|", LF,
                    "|", " ", "-", "-", "-", " ", "|", " ", "-", "-", "-", " ", "|">>,
                  SheetHeading(<<"s", "2">>) >>

\* a body node whose block C11 states is in the list: a paragraph with
\* non-empty trimmed text, or a table that has a row
StatedToEmit(node) ==
    \/ node.tag = "p" /\ Strip(node.text) # <<>>
    \/ node.tag = "tbl" /\ node.rows # <<>>

\* C11: a grid with zero rows contributes no table block, not even an empty
\* one, to the list of blocks that is joined into the output: the blocks of a
\* document are those of its non-blank paragraphs and of its tables that have
\* a row, the blocks of a workbook are each sheet's heading and the table of
\* each sheet that has a retained row, and no block is the empty text.
C11_EmptyGridOmitted ==
    /\ pc = "docx_done" =>
           /\ Len(parts) = Cardinality({i \in 1..Len(body) : StatedToEmit(body[i])})
           /\ \A k \in 1..Len(parts) : parts[k] # <<>>
    /\ pc = "xlsx_done" =>
           /\ Len(parts) = BlocksBefore(wb, Len(wb) + 1)
           /\ \A k \in 1..Len(parts) : parts[k] # <<>>

===========================================================================
